---- MODULE Spec2Model ----
(***************************************************************************)
(* Model of src/parse_tree.py: class ParseTree, the composition of word    *)
(* vectors along a constituency parse tree.                                *)
(*                                                                         *)
(* Values.  An nltk Tree is [k |-> "tree", label, kids]; a token (python   *)
(* str) is [k |-> "str", s]; python None is [k |-> "none"]; a vector is    *)
(* [k |-> "vec", ...].  The numeric operators of hyponymy_library (hl.mult,*)
(* hl.mmult1) are outside the repository's sources here, so a vector is    *)
(* kept as the term that produced it: a word vector [op |-> "word", of] or *)
(* an application [op, l, r].  Terms are equal only when built the same    *)
(* way, so the order and the operator of every composition are observable. *)
(***************************************************************************)
EXTENDS Integers, Sequences, FiniteSets, TLC

VARIABLES data, default_op, word_vectors, origin, input, configured_op,
          status, calls, visits, binarized

vars == <<data, default_op, word_vectors, origin, input, configured_op,
          status, calls, visits, binarized>>

(* ------------------------------ bounds -------------------------------- *)
\* most tokens (leaf nodes) in one sentence
MaxLen == 3

(* ------------------------------ values -------------------------------- *)
None == [k |-> "none"]

Str(s) == [k |-> "str", s |-> s]

Tree(label, kids) == [k |-> "tree", label |-> label, kids |-> kids]

WordVector(token) == [k |-> "vec", op |-> "word", of |-> token]

Applied(op, x, y) == [k |-> "vec", op |-> op, l |-> x, r |-> y]

ignore_labels == {"ls", "pos", ".", "dt", ","}

hadamard_labels == {"ex", "cd", "md", "pdt", "prp", "prp$", "rp", "uh", "to"}

adjective_labels == {"in", "jj"}

\* str.lower() on the labels the model uses
Lower(label) ==
    CASE label = "DT" -> "dt"
      [] label = "JJ" -> "jj"
      [] label = "IN" -> "in"
      [] label = "NN" -> "nn"
      [] label = "NP" -> "np"
      [] label = "S" -> "s"
      [] label = "Root" -> "root"
      [] OTHER -> label

\* word_vectors.safe_lookup: a vector, or None for a token without one
safe_lookup(wv, token) ==
    IF token \in wv THEN WordVector(token) ELSE None

\* python len() of a Tree (its children) or of a str (its characters)
PyLen(x) == IF x.k = "tree" THEN Len(x.kids) ELSE Len(x.s)

\* x[0] of a Tree, or of a one-character str (the character itself)
First(x) == IF x.k = "tree" THEN x.kids[1] ELSE x

(* ------------------------- the operator selector ---------------------- *)
\* binary_operation with the two pass-through lambdas exchanged
binary_operation_Swapped(label1, label2, op) ==
    IF label1 \in ignore_labels
      THEN IF label2 \in ignore_labels THEN "none" ELSE "first"
      ELSE IF label2 \in ignore_labels THEN "second" ELSE op

\* __binary_operation: "none", "second", "first" stand for the three
\* lambdas, any other value is the name of self.default_op
binary_operation(label1, label2, op) ==
    IF label1 \in ignore_labels
      THEN IF label2 \in ignore_labels THEN "none" ELSE "second"
      ELSE IF label2 \in ignore_labels THEN "first" ELSE op

\* operation(vector1, vector2)
Operate(rule, x, y) ==
    CASE rule = "none" -> None
      [] rule = "second" -> y
      [] rule = "first" -> x
      [] OTHER -> Applied(rule, x, y)

is_adjective(label) ==
    IF label = "" THEN FALSE
    ELSE IF Lower(label) \in adjective_labels THEN TRUE ELSE FALSE

\* __contains_adjective: some tree of the list has an adjective label
contains_adjective(tree_list) ==
    \E i \in 1..Len(tree_list) : is_adjective(tree_list[i].label)

\* __tree_is_leaf, on a Tree or on a str
tree_is_leaf(tree) ==
    IF PyLen(tree) = 1 THEN First(tree).k # "tree" ELSE FALSE

(* ------------------------- the composition engine --------------------- *)
(* The interpreter state threaded through one call of evaluate:            *)
(* self.default_op, whether an exception is propagating, and the record of *)
(* what ran: calls, every __evaluate_2 with its arguments as resolved, the *)
(* operation selected, self.default_op at the call and the payload         *)
(* returned; visits, every __evaluate that returned, with its tree_list,   *)
(* self.default_op at its dispatch on len(tree_list), the node returned    *)
(* and which of the calls its dispatch made (calls_from..calls_to).        *)
Machine(op) == [default_op |-> op, raised |-> FALSE, calls |-> <<>>, visits |-> <<>>]

Raise(m) == [m EXCEPT !.raised = TRUE]

\* a child's payload as __evaluate and __evaluate_2 read it: tree[0],
\* looked up when it is still a str
Resolve(wv, tree) ==
    IF First(tree).k = "str" THEN safe_lookup(wv, First(tree).s) ELSE First(tree)

\* Combine2 with the None tests made after the operation is applied, so
\* that a label rule decides even when an operand is missing
Combine2_RuleFirst(vector1, vector2, operation) ==
    IF vector1 = None /\ vector2 = None THEN None
    ELSE IF operation \in {"none", "second", "first"}
      THEN Operate(operation, vector1, vector2)
      ELSE IF vector1 = None THEN vector2
           ELSE IF vector2 = None THEN vector1
                ELSE Operate(operation, vector1, vector2)

\* the payload __evaluate_2 returns for the two resolved vectors
Combine2(vector1, vector2, operation) ==
    IF vector1 = None
      THEN IF vector2 = None THEN None ELSE vector2
      ELSE IF vector2 = None THEN vector1
           ELSE Operate(operation, vector1, vector2)

\* evaluate_2 wrapping its result under the left child's label
evaluate_2_LeftLabel(tree1, tree2, parent_label, wv, m) ==
    IF tree1.k # "tree" \/ tree2.k # "tree"
      THEN [tree |-> None, m |-> Raise(m)]
      ELSE
        LET operation == binary_operation(tree1.label, tree2.label, m.default_op)
            out == Combine2(Resolve(wv, tree1), Resolve(wv, tree2), operation)
            call == [label1 |-> tree1.label, label2 |-> tree2.label,
                     vector1 |-> Resolve(wv, tree1), vector2 |-> Resolve(wv, tree2),
                     parent_label |-> tree1.label, operation |-> operation,
                     active |-> m.default_op, out |-> out]
        IN [tree |-> Tree(tree1.label, <<out>>),
            m |-> [m EXCEPT !.calls = Append(@, call)]]

\* __evaluate_2; tree1.label() raises AttributeError when a child is a str
evaluate_2(tree1, tree2, parent_label, wv, m) ==
    IF tree1.k # "tree" \/ tree2.k # "tree"
      THEN [tree |-> None, m |-> Raise(m)]
      ELSE
        LET label1 == tree1.label
            label2 == tree2.label
            vector1 == Resolve(wv, tree1)
            vector2 == Resolve(wv, tree2)
            operation == binary_operation(label1, label2, m.default_op)
            out == Combine2(vector1, vector2, operation)
            call == [label1 |-> label1, label2 |-> label2,
                     vector1 |-> vector1, vector2 |-> vector2,
                     parent_label |-> parent_label, operation |-> operation,
                     active |-> m.default_op, out |-> out]
        IN [tree |-> Tree(parent_label, <<out>>),
            m |-> [m EXCEPT !.calls = Append(@, call)]]

\* current_tree.label(), the third argument of the folds' __evaluate_2 calls
\* (evaluate_2 raises before using it when current_tree is a str)
LabelOf(tree) == IF tree.k = "tree" THEN tree.label ELSE ""

\* the loop of __evaluate_left2right, from tree_list[i] on
RECURSIVE left2right_from(_, _, _, _, _)
left2right_from(tree_list, i, current_tree, wv, m) ==
    IF i > Len(tree_list) \/ m.raised
      THEN [tree |-> current_tree, m |-> m]
      ELSE
        LET r == evaluate_2(current_tree, tree_list[i],
                            LabelOf(current_tree), wv, m)
        IN left2right_from(tree_list, i + 1, r.tree, wv, r.m)

evaluate_left2right(tree_list, wv, m) ==
    left2right_from(tree_list, 2, tree_list[1], wv, m)

\* the loop of __evaluate_right2left, from tree_list[i] down
RECURSIVE right2left_from(_, _, _, _, _)
right2left_from(tree_list, i, current_tree, wv, m) ==
    IF i < 1 \/ m.raised
      THEN [tree |-> current_tree, m |-> m]
      ELSE
        LET r == evaluate_2(tree_list[i], current_tree,
                            LabelOf(current_tree), wv, m)
        IN right2left_from(tree_list, i - 1, r.tree, wv, r.m)

evaluate_right2left(tree_list, wv, m) ==
    right2left_from(tree_list, Len(tree_list) - 1, tree_list[Len(tree_list)], wv, m)

\* evaluate_greater_than_2 folding from the left also under the projection
evaluate_greater_than_2_LeftAlways(tree_list, parent_label, wv, m) ==
    LET r == evaluate_left2right(tree_list, wv,
                 IF contains_adjective(tree_list)
                   THEN [m EXCEPT !.default_op = "mmult1"] ELSE m)
    IN IF r.m.raised
         THEN [tree |-> None, m |-> r.m]
         ELSE [tree |-> Tree(parent_label, <<First(r.tree)>>),
               m |-> [r.m EXCEPT !.default_op = m.default_op]]

\* evaluate_greater_than_2 leaving mmult1 in self.default_op after the
\* right-to-left fold (line 125 left out)
evaluate_greater_than_2_NoRestore(tree_list, parent_label, wv, m) ==
    IF contains_adjective(tree_list)
      THEN
        LET r == evaluate_right2left(tree_list, wv,
                                     [m EXCEPT !.default_op = "mmult1"])
        IN IF r.m.raised
             THEN [tree |-> None, m |-> r.m]
             ELSE [tree |-> Tree(parent_label, <<First(r.tree)>>), m |-> r.m]
      ELSE
        LET r == evaluate_left2right(tree_list, wv, m)
        IN IF r.m.raised
             THEN [tree |-> None, m |-> r.m]
             ELSE [tree |-> Tree(parent_label, <<First(r.tree)>>), m |-> r.m]

\* __evaluate_greater_than_2 (the assert passes: it is called with
\* len(tree_list) > 2 only, a node of a parsed tree having a child)
evaluate_greater_than_2(tree_list, parent_label, wv, m) ==
    IF contains_adjective(tree_list)
      THEN
        LET previous_default_op == m.default_op
            r == evaluate_right2left(tree_list, wv,
                                     [m EXCEPT !.default_op = "mmult1"])
        IN IF r.m.raised
             THEN [tree |-> None, m |-> r.m]
             ELSE [tree |-> Tree(parent_label, <<First(r.tree)>>),
                   m |-> [r.m EXCEPT !.default_op = previous_default_op]]
      ELSE
        LET r == evaluate_left2right(tree_list, wv, m)
        IN IF r.m.raised
             THEN [tree |-> None, m |-> r.m]
             ELSE [tree |-> Tree(parent_label, <<First(r.tree)>>), m |-> r.m]

\* the dispatch of __evaluate on len(tree_list), lines 83-92
evaluate_node(label, tree_list, wv, m) ==
    IF Len(tree_list) = 1
      THEN [tree |-> Tree(label, <<Resolve(wv, tree_list[1])>>), m |-> m]
      ELSE IF Len(tree_list) = 2
        THEN evaluate_2(tree_list[1], tree_list[2], label, wv, m)
        ELSE evaluate_greater_than_2(tree_list, label, wv, m)

(* __evaluate.  Called on a str (a token of a (LABEL token) node that is   *)
(* not one character long, so not a leaf for __tree_is_leaf) it iterates   *)
(* the characters and then raises AttributeError at tree.label(), whatever *)
(* len(tree_list) is.                                                      *)
RECURSIVE evaluate_tree(_, _, _), evaluate_children(_, _, _, _, _)
evaluate_tree(tree, wv, m) ==
    IF tree.k # "tree"
      THEN [tree |-> None, m |-> Raise(m)]
      ELSE
        LET c == evaluate_children(tree.kids, 1, <<>>, wv, m)
        IN IF c.m.raised
             THEN [tree |-> None, m |-> c.m]
             ELSE
               LET r == evaluate_node(tree.label, c.list, wv, c.m)
                   visit == [label |-> tree.label, tree_list |-> c.list,
                             default_op |-> c.m.default_op, out |-> r.tree,
                             calls_from |-> Len(c.m.calls) + 1,
                             calls_to |-> Len(r.m.calls)]
               IN IF r.m.raised
                    THEN r
                    ELSE [tree |-> r.tree,
                          m |-> [r.m EXCEPT !.visits = Append(@, visit)]]

\* the for loop of __evaluate, lines 76-81, from child i on
evaluate_children(kids, i, tree_list, wv, m) ==
    IF i > Len(kids) \/ m.raised
      THEN [list |-> tree_list, m |-> m]
      ELSE IF tree_is_leaf(kids[i])
        THEN evaluate_children(kids, i + 1, Append(tree_list, kids[i]), wv, m)
        ELSE
          LET r == evaluate_tree(kids[i], wv, m)
          IN evaluate_children(kids, i + 1, Append(tree_list, r.tree), wv, r.m)

(* ------------------------------ binarizer ----------------------------- *)
\* tree_to_binary; reduce(f, tree) is left2 below, from child i on with
\* accumulator x, f(x, y) = Tree(label, (tree_to_binary(x), tree_to_binary(y)))
RECURSIVE tree_to_binary(_), reduce_from(_, _, _, _)

\* reduce_from nesting to the right: the accumulator becomes the right child
reduce_from_RightNested(label, kids, i, x) ==
    IF i > Len(kids)
      THEN x
      ELSE reduce_from(label, kids, i + 1,
                       Tree(label, <<tree_to_binary(kids[i]), tree_to_binary(x)>>))

tree_to_binary(tree) ==
    IF tree.k = "str"
      THEN tree
      ELSE IF Len(tree.kids) = 1
        THEN tree_to_binary(tree.kids[1])
        ELSE reduce_from(tree.label, tree.kids, 2, tree.kids[1])

reduce_from(label, kids, i, x) ==
    IF i > Len(kids)
      THEN x
      ELSE reduce_from(label, kids, i + 1,
                       Tree(label, <<tree_to_binary(x), tree_to_binary(kids[i])>>))

(* ------------------------------ construction -------------------------- *)
\* the words sentences are made of: a sentence is a run of consecutive
\* words among the first MaxLen, so its tokens are distinct and the vector
\* of each is told apart from the others
Words == <<"a", "cat", "on", "mats", "we", "saw">>

PosLabels == {"dt", "DT", "jj"}

PhraseLabels == {"NP"}

ClauseLabels == {"S"}

Tags == {"dt", "jj", "JJ", "nn"}

DefaultOps == {"mult", "mmult1"}

(* The trees a bracketed string can denote (Tree.fromstring, of nltk, is    *)
(* not part of the sources), over the n words after the first s: a         *)
(* (LABEL token) node; a phrase, whose children are such nodes; a clause,  *)
(* whose children are phrases and (LABEL token) nodes.  A node has any     *)
(* number of children, one included.                                       *)
LeafTrees(n, s) ==
    IF n = 1 THEN {Tree(l, <<Str(Words[s + 1])>>) : l \in PosLabels} ELSE {}

RECURSIVE LeafLists(_, _)
LeafLists(n, s) ==
    IF n = 0 THEN {<<>>}
    ELSE {<<t>> \o f : t \in LeafTrees(1, s), f \in LeafLists(n - 1, s + 1)}

PhraseTrees(n, s) == {Tree(l, f) : l \in PhraseLabels, f \in LeafLists(n, s)}

RECURSIVE ConstituentLists(_, _)
ConstituentLists(n, s) ==
    IF n = 0 THEN {<<>>}
    ELSE UNION {{<<t>> \o f : t \in LeafTrees(j, s) \cup PhraseTrees(j, s),
                              f \in ConstituentLists(n - j, s + j)}
                : j \in 1..n}

ClauseTrees(n, s) == {Tree(l, f) : l \in ClauseLabels, f \in ConstituentLists(n, s)}

\* the clauses over the first n words that hold one phrase of two or more
\* tokens among (LABEL token) nodes, one such node at least: a node of
\* several children with a sibling, or with a child that is itself composed
NestedClauseTrees(n) ==
    UNION {UNION {{Tree(l, a \o <<p>> \o b) :
                     l \in ClauseLabels, a \in LeafLists(i, 0),
                     p \in PhraseTrees(j, i), b \in LeafLists(n - j - i, i + j)}
                  : i \in 0..(n - j)} : j \in 2..(n - 1)}

\* every tree of at most MaxLen tokens, and the nested clauses of one more
ParsedTrees ==
    UNION {UNION {LeafTrees(n, s) \cup PhraseTrees(n, s) \cup ClauseTrees(n, s)
                  : s \in 0..(MaxLen - n)} : n \in 1..MaxLen}
      \cup NestedClauseTrees(MaxLen + 1)

TokenLists ==
    UNION {{SubSeq(Words, s + 1, s + n) : s \in 0..(MaxLen - n)} : n \in 1..MaxLen}

\* the tokens of a tree, left to right
RECURSIVE TokensOf(_)
TokensOf(tree) ==
    IF tree.k = "str" THEN <<tree.s>>
    ELSE IF tree.k # "tree" THEN <<>>
    ELSE IF Len(tree.kids) = 1 THEN TokensOf(tree.kids[1])
    ELSE TokensOf(tree.kids[1]) \o TokensOf([tree EXCEPT !.kids = Tail(@)])

Range(f) == {f[i] : i \in DOMAIN f}

\* pos_string_to_binary_tree: Tree.fromstring and nothing else; the string
\* is given as the tree it denotes
pos_string_to_binary_tree(parsed) == parsed

\* from_sentence without a '(' in the sentence: leaves are the split
\* tokens, tags a list of the same length or None (<<>> here)
from_sentence(leaves, tags) ==
    Tree("Root", [i \in 1..Len(leaves) |->
                    Tree(IF tags = <<>> THEN "" ELSE tags[i], <<Str(leaves[i])>>)])

NoResult == [k |-> "unset"]

InitBracketed ==
    /\ origin = "bracketed"
    /\ \E parsed \in ParsedTrees : data = pos_string_to_binary_tree(parsed)
    /\ default_op \in DefaultOps

InitFlat ==
    /\ origin = "flat"
    /\ \E leaves \in TokenLists :
         \E tags \in {<<>>} \cup [1..Len(leaves) -> Tags] :
           data = from_sentence(leaves, tags)
    /\ default_op = "mult"

Init ==
    /\ (InitBracketed \/ InitFlat)
    /\ word_vectors \in SUBSET Range(TokensOf(data))
    /\ input = data
    /\ configured_op = default_op
    /\ status = "built"
    /\ calls = <<>>
    /\ visits = <<>>
    /\ binarized = NoResult

(* ------------------------------- operations --------------------------- *)
\* evaluate(): self.data = self.__evaluate(self.data); when __evaluate
\* raises, the assignment does not happen.  It is taken once per ParseTree:
\* a second call would iterate the root's vector, whose python length
\* the vector terms do not carry.
Evaluate ==
    /\ status = "built"
    /\ \E r \in {evaluate_tree(data, word_vectors, Machine(default_op))} :
          /\ data' = IF r.m.raised THEN data ELSE r.tree
          /\ default_op' = r.m.default_op
          /\ status' = IF r.m.raised THEN "raised" ELSE "evaluated"
          /\ calls' = r.m.calls
          /\ visits' = r.m.visits
    /\ UNCHANGED <<word_vectors, origin, input, configured_op, binarized>>

\* a caller's tree_to_binary(self.data) on the tree as built; the method
\* returns the binary tree and assigns nothing
TreeToBinary ==
    /\ status = "built"
    /\ binarized = NoResult
    /\ binarized' = tree_to_binary(data)
    /\ UNCHANGED <<data, default_op, word_vectors, origin, input, configured_op,
                   status, calls, visits>>

Next == Evaluate \/ TreeToBinary

Spec == Init /\ [][Next]_vars

(* ================================ claims ============================== *)
Call(i) == calls[i]

CallIds == 1..Len(calls)

VisitIds == 1..Len(visits)

\* C1: in every two-child evaluation where exactly one resolved child value
\* is Absent, the payload of the result is the other child's value,
\* unchanged, whatever the two labels are (no operator and no label rule
\* is applied to it).
C1_OneAbsentPassesOther ==
    \A i \in CallIds :
      ((Call(i).vector1 = None) # (Call(i).vector2 = None))
        => Call(i).out = (IF Call(i).vector1 = None THEN Call(i).vector2
                          ELSE Call(i).vector1)

\* a two-child evaluation whose right value is Absent and whose left label
\* is in the ignore-set (its rule alone would pass the right value), the
\* left value coming out
C1_Witness ==
    \E i \in CallIds :
      /\ Call(i).label1 \in ignore_labels
      /\ Call(i).label2 \notin ignore_labels
      /\ Call(i).vector1 # None
      /\ Call(i).vector2 = None
      /\ Call(i).out = Call(i).vector1

\* C2 as stated: label1 in the ignore-set and v2 a vector give the payload
\* v2, for every label2 and every v1.
C2_IgnoredLeftGivesRight ==
    \A i \in CallIds :
      (Call(i).label1 \in ignore_labels /\ Call(i).vector2 # None)
        => Call(i).out = Call(i).vector2

\* C2 amended: with label1 in the ignore-set and v2 a vector, the payload is
\* v2 when label2 is not in the ignore-set, or when v1 is Absent; when label2
\* is in the ignore-set too and v1 is a vector, the payload is Absent.
C2_IgnoredLeftGivesRightUnlessBothIgnored ==
    \A i \in CallIds :
      (Call(i).label1 \in ignore_labels /\ Call(i).vector2 # None)
        => Call(i).out =
             (IF Call(i).label2 \in ignore_labels /\ Call(i).vector1 # None
                THEN None ELSE Call(i).vector2)

\* both values are vectors, only label1 is in the ignore-set, v2 comes out
C2_Witness ==
    \E i \in CallIds :
      /\ Call(i).label1 \in ignore_labels
      /\ Call(i).label2 \notin ignore_labels
      /\ Call(i).vector1 # None
      /\ Call(i).vector2 # None
      /\ Call(i).out = Call(i).vector2

(* ------------------------------- C3 ----------------------------------- *)
Visit(i) == visits[i]

\* the children of a visited node: how many, their labels, their values
Arity(v) == Len(v.tree_list)

ChildLabel(v, i) == v.tree_list[i].label

ChildValue(v, i) == Resolve(word_vectors, v.tree_list[i])

\* the j-th two-child evaluation made for a visited node
Step(v, j) == calls[v.calls_from + j - 1]

Steps(v) == v.calls_to - v.calls_from + 1

HasAdjectiveChild(v) ==
    \E i \in 1..Arity(v) : Lower(ChildLabel(v, i)) \in adjective_labels

\* the terms op(v1, op(v2, ... vk)) and op(op(v1, v2), ... vk)
RECURSIVE RightNest(_, _), LeftNest(_, _)
RightNest(op, vs) ==
    IF Len(vs) = 1 THEN vs[1] ELSE Applied(op, vs[1], RightNest(op, Tail(vs)))

LeftNest(op, vs) ==
    IF Len(vs) = 1 THEN vs[1]
    ELSE Applied(op, LeftNest(op, SubSeq(vs, 1, Len(vs) - 1)), vs[Len(vs)])

ChildValues(v) == [i \in 1..Arity(v) |-> ChildValue(v, i)]

\* every child has a vector and no child's label is in the ignore-set, so
\* every step applies the active operator
AllCombine(v) ==
    \A i \in 1..Arity(v) :
      ChildValue(v, i) # None /\ ChildLabel(v, i) \notin ignore_labels

\* right-to-left: step j takes child k-j as the left operand and the
\* running result (child k at first) as the right one, under mmult1
FoldsRightToLeft(v) ==
    /\ Steps(v) = Arity(v) - 1
    /\ \A j \in 1..Steps(v) :
         /\ Step(v, j).active = "mmult1"
         /\ Step(v, j).label1 = ChildLabel(v, Arity(v) - j)
         /\ Step(v, j).vector1 = ChildValue(v, Arity(v) - j)
         /\ Step(v, j).vector2 =
              (IF j = 1 THEN ChildValue(v, Arity(v)) ELSE Step(v, j - 1).out)
    /\ First(v.out) = Step(v, Steps(v)).out
    /\ AllCombine(v) =>
         /\ First(v.out) = RightNest("mmult1", ChildValues(v))
         /\ First(v.out) # LeftNest(configured_op, ChildValues(v))

\* left-to-right: step j takes the running result (child 1 at first) as the
\* left operand and child j+1 as the right one, under the configured operator
FoldsLeftToRight(v) ==
    /\ Steps(v) = Arity(v) - 1
    /\ \A j \in 1..Steps(v) :
         /\ Step(v, j).active = configured_op
         /\ Step(v, j).label2 = ChildLabel(v, j + 1)
         /\ Step(v, j).vector2 = ChildValue(v, j + 1)
         /\ Step(v, j).vector1 =
              (IF j = 1 THEN ChildValue(v, 1) ELSE Step(v, j - 1).out)
    /\ First(v.out) = Step(v, Steps(v)).out
    /\ AllCombine(v) =>
         /\ First(v.out) = LeftNest(configured_op, ChildValues(v))
         /\ First(v.out) # RightNest("mmult1", ChildValues(v))

\* C3: a node with three or more children is folded right to left under the
\* projection operator when some child's label is in the adjective-set, and
\* left to right under the configured default operator otherwise; when
\* every step combines, the value is the nested term of that fold and not
\* the other fold's.
C3_FoldDirectionByAdjective ==
    \A i \in VisitIds :
      Arity(Visit(i)) > 2 =>
        IF HasAdjectiveChild(Visit(i))
          THEN FoldsRightToLeft(Visit(i))
          ELSE FoldsLeftToRight(Visit(i))

\* a three-child node with an adjective child, configured with mult, whose
\* value is mmult1(v1, mmult1(v2, v3))
C3_Witness ==
    \E i \in VisitIds :
      /\ Arity(Visit(i)) = 3
      /\ HasAdjectiveChild(Visit(i))
      /\ AllCombine(Visit(i))
      /\ configured_op = "mult"
      /\ First(Visit(i).out) =
           Applied("mmult1", ChildValue(Visit(i), 1),
                   Applied("mmult1", ChildValue(Visit(i), 2), ChildValue(Visit(i), 3)))

(* ------------------------------- C4 ----------------------------------- *)
Slot == [k |-> "slot"]

\* a tree with every payload (token, vector or None) replaced by a slot:
\* its branching structure and its labels
RECURSIVE Skeleton(_)
Skeleton(tree) ==
    IF tree.k # "tree" THEN Slot
    ELSE Tree(tree.label, [i \in 1..Len(tree.kids) |-> Skeleton(tree.kids[i])])

RECURSIVE Depth(_)
Depth(tree) ==
    IF tree.k # "tree" THEN 0
    ELSE 1 + Depth(CHOOSE c \in Range(tree.kids) :
                     \A e \in Range(tree.kids) : Depth(e) <= Depth(c))

C5_AllAbsentGivesAbsentRoot ==
    /\ (status # "built" /\ word_vectors = {}) =>
         (status = "evaluated" /\ First(data) = None)
    /\ \A i \in CallIds :
         (Call(i).vector1 = None /\ Call(i).vector2 = None) => Call(i).out = None

\* C8: evaluate on a well-formed tree (a single (LABEL token) node and
\* single-child nodes included) returns without raising, the root payload
\* being a vector or Absent.
C8_EvaluateReturns ==
    status # "built" =>
      (status = "evaluated" /\ First(data).k \in {"vec", "none"})

(* ------------------------------- C6 ----------------------------------- *)
\* C6: spelling a label in another letter case changes neither the rule
\* the selector returns nor the answer of the adjective scan.
C6_LabelCaseIsIgnored ==
    /\ \A i \in CallIds :
         Call(i).operation =
           binary_operation(Lower(Call(i).label1), Lower(Call(i).label2),
                            Call(i).active)
    /\ \A i \in VisitIds :
         contains_adjective(Visit(i).tree_list) =
           (\E j \in 1..Arity(Visit(i)) : is_adjective(Lower(ChildLabel(Visit(i), j))))

(* ------------------------------- C7 ----------------------------------- *)
\* combine(...combine(combine(b1, b2, L), b3, L)..., bk, L)
RECURSIVE Spine(_, _)
Spine(label, bs) ==
    IF Len(bs) = 2 THEN Tree(label, bs)
    ELSE Tree(label, <<Spine(label, SubSeq(bs, 1, Len(bs) - 1)), bs[Len(bs)]>>)

RECURSIVE AtMostBinary(_)
AtMostBinary(tree) ==
    tree.k = "tree" =>
      /\ Len(tree.kids) <= 2
      /\ \A i \in 1..Len(tree.kids) : AtMostBinary(tree.kids[i])

\* C7: tree_to_binary of a node labelled L with k > 2 children is the
\* left-nested tree over the children's binarizations, every node of the
\* spine labelled L; no node of it has more than two children and its
\* tokens are the input's, in the same order.
C7_BinarizeLeftNested ==
    (binarized # NoResult /\ Len(input.kids) > 2) =>
      /\ binarized = Spine(input.label,
                           [i \in 1..Len(input.kids) |-> tree_to_binary(input.kids[i])])
      /\ AtMostBinary(binarized)
      /\ TokensOf(binarized) = TokensOf(input)

\* a three-child node binarized, one child of it a single-child node
C7_Witness ==
    /\ binarized # NoResult
    /\ Len(input.kids) = 3
    /\ \E i \in 1..3 : ~tree_is_leaf(input.kids[i])
    /\ binarized.kids[1].k = "tree"
    /\ binarized.kids[1].label = input.label

(* ------------------------------- C9 ----------------------------------- *)
\* C9: in the folds of a node with more than two children every step wraps
\* its result under the node's label, so from the second step on the
\* selector sees that label on the running result's side.
C9_CompositeCarriesParentLabel ==
    \A i \in VisitIds :
      Arity(Visit(i)) > 2 =>
        /\ \A j \in 1..Steps(Visit(i)) :
             Step(Visit(i), j).parent_label = Visit(i).label
        /\ \A j \in 2..Steps(Visit(i)) :
             IF HasAdjectiveChild(Visit(i))
               THEN Step(Visit(i), j).label2 = Visit(i).label
               ELSE Step(Visit(i), j).label1 = Visit(i).label

(* ------------------------------- C10 ---------------------------------- *)
\* C10: evaluate on a tree built from a bracketed string visits no node
\* with more than two children.
C10_BracketedTreesAreBinary ==
    origin = "bracketed" => \A i \in VisitIds : Arity(Visit(i)) <= 2

(* ------------------------------- C11 ---------------------------------- *)
\* the two-child evaluation c is a step of the fold of a visited node that
\* has more than two children, one of them adjective-labelled
InAdjectiveFold(c) ==
    \E i \in VisitIds :
      /\ Arity(Visit(i)) > 2
      /\ HasAdjectiveChild(Visit(i))
      /\ c \in Visit(i).calls_from .. Visit(i).calls_to

\* C11: the projection operator is the default operator during the steps of
\* the right-to-left fold of an adjective-containing node of more than two
\* children and at no other time: every other two-child evaluation runs
\* under the configured operator, every node (the children of such a node,
\* evaluated before it, its siblings and ancestors, evaluated after it)
\* is dispatched with the configured operator in place, and when evaluate
\* has returned the ParseTree's default operator is the configured one.
C11_ProjectionOnlyDuringAdjectiveFold ==
    /\ \A c \in CallIds :
         Call(c).active = (IF InAdjectiveFold(c) THEN "mmult1" ELSE configured_op)
    /\ \A i \in VisitIds : Visit(i).default_op = configured_op
    /\ status = "evaluated" => default_op = configured_op

\* evaluate has returned on a tree configured with mult: a node folded
\* under mmult1, and after it its parent combining the fold's value with a
\* sibling under mult; mult is the default operator at the end
C11_Witness ==
    /\ status = "evaluated"
    /\ configured_op = "mult"
    /\ default_op = "mult"
    /\ \E i \in VisitIds :
         /\ Arity(Visit(i)) > 2
         /\ HasAdjectiveChild(Visit(i))
         /\ First(Visit(i).out) = RightNest("mmult1", ChildValues(Visit(i)))
         /\ \E c \in CallIds :
              /\ c > Visit(i).calls_to
              /\ Call(c).vector1 = First(Visit(i).out)
              /\ Call(c).active = "mult"
              /\ Call(c).out = Applied("mult", Call(c).vector1, Call(c).vector2)

\* the same with the composed node first: a child combined under mult
\* before its parent's fold runs under mmult1 and takes the child's value
C11_ChildBeforeFold ==
    /\ status = "evaluated"
    /\ configured_op = "mult"
    /\ \E i \in VisitIds :
         /\ Arity(Visit(i)) > 2
         /\ HasAdjectiveChild(Visit(i))
         /\ \E c \in CallIds :
              /\ c < Visit(i).calls_from
              /\ Call(c).out = Applied("mult", Call(c).vector1, Call(c).vector2)
              /\ \E j \in 1..Arity(Visit(i)) : ChildValue(Visit(i), j) = Call(c).out
              /\ \E d \in Visit(i).calls_from .. Visit(i).calls_to :
                   /\ Call(d).active = "mmult1"
                   /\ Call(d).out = Applied("mmult1", Call(d).vector1, Call(d).vector2)

====
